---- MODULE Spec2Model ----
(***************************************************************************)
(* StorageTransport.makeRequest (storage-transport.ts) and the retry       *)
(* conformance runner that drives it.                                      *)
(*                                                                         *)
(* JavaScript values are modelled with one shape per kind:                 *)
(*   - a string|undefined is a string, undefined being "undefined";        *)
(*   - an optional object field is a set: {} when absent, {v} when set;    *)
(*   - a response is [status, data]; an absent response is NoResponse;     *)
(*   - an error is [name, response].                                       *)
(***************************************************************************)
EXTENDS Integers, Sequences, FiniteSets, TLC

\* ---------------------------------------------------------------- bounds
MaxCalls == 2
MaxAttemptDur == 2
MaxScriptLen == 2

\* ------------------------------------------------------------- JS values
Undefined == "undefined"
Null == "null"

\* JavaScript truthiness of a string | undefined.
Truthy(s) == s # Undefined /\ s # ""

NoResponse == [status |-> 0, data |-> Undefined]
NullError == [name |-> Null, response |-> NoResponse]

\* The values authClient.request can resolve with (GaxiosResponse).
Responses == {[status |-> 200, data |-> "d1"], [status |-> 204, data |-> Undefined]}

\* The errors authClient.getProjectId can reject with: a plain Error, or a
\* GaxiosError that carries the metadata server's response.
LookupErrors ==
  { [name |-> "NoProjectId", response |-> NoResponse],
    [name |-> "MetadataError", response |-> [status |-> 500, data |-> "meta"]] }

\* The error new URL(...) throws.
InvalidUrlError == [name |-> "TypeError", response |-> NoResponse]

\* An exception thrown by the caller's callback.
CallbackError == [name |-> "CallbackError", response |-> NoResponse]

\* GaxiosError for an HTTP status, and for a request that got no response.
HttpError(status) ==
  [name |-> "GaxiosError", response |-> [status |-> status, data |-> "body"]]

ConnectionReset == [name |-> "ECONNRESET", response |-> NoResponse]

\* ------------------------------------------------- conformance constants
DURATION_SECONDS == 600
CONF_TEST_PROJECT_ID == "my-project-id"
TIMEOUT_FOR_INDIVIDUAL_TEST == 20000
\* 0.01, as the fraction <<numerator, denominator>>.
RETRY_MULTIPLIER_FOR_CONFORMANCE_TESTS == <<1, 100>>
ConformanceMaxRetries == 3
ConformanceMaxRetryDelay == 32

\* URL strings are sequences of tokens; string concatenation is \o.
Schemes == {"http:", "https:"}
Hosts == {"//localhost:9000", "//storage.example"}
QueryTokens == {"?x=1"}
\* The parameters a query token parses to.
QueryOf(tok) == IF tok = "?x=1" THEN << <<"x", "1">> >> ELSE <<>>
TESTBENCH_HOST == <<"http:", "//localhost:9000", "/">>

\* Conformance retryOptions with a multiplier of 2 in place of 0.01.
ConformanceRetryOptionsDoubling ==
  [ retryDelayMultiplier |-> <<2, 1>>,
    maxRetries |-> ConformanceMaxRetries,
    maxRetryDelay |-> ConformanceMaxRetryDelay,
    totalTimeout |-> TIMEOUT_FOR_INDIVIDUAL_TEST,
    retryableErrorFn |-> Undefined ]

\* retryOptions handed to the transport by the conformance runner.
ConformanceRetryOptions ==
  [ retryDelayMultiplier |-> RETRY_MULTIPLIER_FOR_CONFORMANCE_TESTS,
    maxRetries |-> ConformanceMaxRetries,
    maxRetryDelay |-> ConformanceMaxRetryDelay,
    totalTimeout |-> TIMEOUT_FOR_INDIVIDUAL_TEST,
    retryableErrorFn |-> Undefined ]

\* The TransportParameters the conformance runner constructs with.
ConformanceTransportParameters ==
  [ baseUrl |-> TESTBENCH_HOST,
    retryOptions |-> ConformanceRetryOptions,
    projectId |-> CONF_TEST_PROJECT_ID,
    userAgent |-> "retry-test",
    timeout |-> DURATION_SECONDS ]

\* ------------------------------------------------------------- transport
\* new StorageTransport(options): the fields makeRequest reads.
StorageTransport(options) ==
  [ providedUserAgent |-> options.userAgent,
    retryOptions |-> options.retryOptions,
    baseUrl |-> options.baseUrl,
    timeout |-> options.timeout,
    projectId |-> options.projectId ]

\* getUserAgentString() of ./util: a fixed, non-empty product string.
DefaultUserAgent == "gcloud-node-storage/7.16.0"
\* getRuntimeTrackingString() and the gccl/<version>-<format> tag.
RuntimeTracking == <<"gl-node/18", "gccl/7.16.0-cjs">>

\* #getUserAgentString
GetUserAgentString(t) ==
  IF Truthy(t.providedUserAgent)
    THEN <<t.providedUserAgent, DefaultUserAgent>>
    ELSE <<DefaultUserAgent>>

\* Headers normalises names to lower case.
LowerCase(name) ==
  CASE name = "User-Agent" -> "user-agent"
    [] name = "Content-Type" -> "content-type"
    [] name = "X-Goog-Api-Client" -> "x-goog-api-client"
    [] name = "X-Retry-Test-Id" -> "x-retry-test-id"
    [] OTHER -> name

\* A header value is its text, a sequence of tokens; the tracking header also
\* holds the invocation id and the command tag that are part of its text.
HeaderValue(text) == [text |-> text, invocationId |-> 0, cmd |-> Undefined]

\* headers.set(name, value) on a Headers object (a set of <<name, value>>).
HeadersSet(headers, name, value) ==
  {h \in headers : h[1] # LowerCase(name)} \cup {<<LowerCase(name), value>>}

HeadersHas(headers, name) == \E h \in headers : h[1] = LowerCase(name)
HeadersGet(headers, name) == (CHOOSE h \in headers : h[1] = LowerCase(name))[2]

\* headers.append(name, value): a value for a name already present (names
\* compare case-insensitively) is joined to the old one with ", ".
HeadersAppend(headers, name, value) ==
  IF HeadersHas(headers, name)
    THEN HeadersSet(headers, name,
           [HeadersGet(headers, name) EXCEPT !.text = @ \o <<", ">> \o value.text])
    ELSE HeadersSet(headers, name, value)

\* new Headers(requestHeaders): requestHeaders is the sequence of the object's
\* own <<name, value>> entries, each of which is appended in order.
RECURSIVE NewHeaders(_)
NewHeaders(requestHeaders) ==
  IF requestHeaders = <<>> THEN {}
  ELSE LET n == Len(requestHeaders)
       IN HeadersAppend(NewHeaders(SubSeq(requestHeaders, 1, n - 1)),
                        requestHeaders[n][1], requestHeaders[n][2])

\* A header builder that leaves a caller's User-Agent in place.
BuildRequestHeadersKeepCaller(t, requestHeaders, uuid) ==
  LET h0 == NewHeaders(requestHeaders)
      h1 == IF HeadersHas(h0, "User-Agent") THEN h0
            ELSE HeadersSet(h0, "User-Agent", HeaderValue(GetUserAgentString(t)))
  IN HeadersSet(h1, "x-goog-api-client",
                [text |-> RuntimeTracking, invocationId |-> uuid, cmd |-> Undefined])

\* #buildRequestHeaders; uuid is the value randomUUID() returns.
BuildRequestHeaders(t, requestHeaders, uuid) ==
  LET h0 == NewHeaders(requestHeaders)
      h1 == HeadersSet(h0, "User-Agent", HeaderValue(GetUserAgentString(t)))
  IN HeadersSet(h1, "x-goog-api-client",
                [text |-> RuntimeTracking, invocationId |-> uuid, cmd |-> Undefined])

\* Headers whose invocation id is the same in every invocation.
RequestHeadersSharedId(t, reqOpts, uuid) ==
  LET headers == BuildRequestHeaders(t, reqOpts.headers, 1)
  IN IF Truthy(reqOpts.cmdKey)
       THEN HeadersSet(headers, "x-goog-api-client",
                       [HeadersGet(headers, "x-goog-api-client")
                          EXCEPT !.cmd = reqOpts.cmdKey])
       ELSE headers

\* makeRequest lines 118-126: the headers of the call, with the command tag
\* appended to the tracking header when the descriptor carries one.
RequestHeaders(t, reqOpts, uuid) ==
  LET headers == BuildRequestHeaders(t, reqOpts.headers, uuid)
  IN IF Truthy(reqOpts.cmdKey)
       THEN HeadersSet(headers, "x-goog-api-client",
                       [HeadersGet(headers, "x-goog-api-client")
                          EXCEPT !.cmd = reqOpts.cmdKey])
       ELSE headers

\* ------------------------------------------------------------------ URLs
\* A URL string is the sequence of its tokens: a scheme, an authority, "/"
\* separators, path segments and a query. A host followed by a port is an
\* authority of its own kind.
HostsWithPort == {"//localhost:9000"}
IsSegment(tok) == tok \notin ({"/"} \cup QueryTokens \cup Schemes \cup Hosts)

\* A segment written straight after the authority is read as part of it.
RunsIntoAuthority(url) == Len(url) >= 3 /\ IsSegment(url[3])

\* new URL(s) succeeds iff s starts with a scheme and an authority; text that
\* runs into a port makes the port, and with it the URL, invalid.
IsValidUrl(url) ==
  /\ Len(url) >= 2 /\ url[1] \in Schemes /\ url[2] \in Hosts
  /\ ~(RunsIntoAuthority(url) /\ url[2] \in HostsWithPort)

IsPathToken(tok) == tok \notin QueryTokens

\* new URL(s) for a valid s: scheme, authority, path ("/" when s has none) and
\* the query s carries.
NewURL(s) ==
  LET rest == SubSeq(s, IF RunsIntoAuthority(s) THEN 4 ELSE 3, Len(s))
      path == SelectSeq(rest, IsPathToken)
  IN [ protocol |-> s[1],
       host |-> IF RunsIntoAuthority(s) THEN <<s[2], s[3]>> ELSE <<s[2]>>,
       pathname |-> IF path = <<>> THEN <<"/">> ELSE path,
       search |-> IF \E i \in 1..Len(rest) : rest[i] \in QueryTokens
                    THEN QueryOf(rest[CHOOSE i \in 1..Len(rest) : rest[i] \in QueryTokens])
                    ELSE <<>> ]

\* URLSearchParams percent/plus-encodes a value; String(undefined) is "undefined".
EncodeValue(v) ==
  CASE v = "wrong id" -> "wrong+id"
    [] v = "a&b" -> "a%26b"
    [] OTHER -> v

\* #buildRequestQueryParams: the pairs in insertion order, values encoded.
BuildRequestQueryParams(queryParameters) ==
  [i \in 1..Len(queryParameters) |->
     <<queryParameters[i][1], EncodeValue(queryParameters[i][2])>>]

HasKey(queryParameters, key) ==
  \E i \in 1..Len(queryParameters) : queryParameters[i][1] = key
GetKey(queryParameters, key) ==
  queryParameters[CHOOSE i \in 1..Len(queryParameters) : queryParameters[i][1] = key][2]

\* A substitution that writes the module-level project id.
SubstituteProjectModuleScope(queryParameters, thisProjectId, moduleProjectId) ==
  IF HasKey(queryParameters, "project")
     /\ (GetKey(queryParameters, "project") # thisProjectId
         \/ GetKey(queryParameters, "project") # moduleProjectId)
    THEN [i \in 1..Len(queryParameters) |->
            IF queryParameters[i][1] = "project"
              THEN <<"project", moduleProjectId>>
              ELSE queryParameters[i]]
    ELSE queryParameters

\* A substitution that is skipped when the caller's project is the one the
\* module-level variable holds.
SubstituteProjectUnlessCached(queryParameters, thisProjectId, moduleProjectId) ==
  IF HasKey(queryParameters, "project")
     /\ GetKey(queryParameters, "project") # moduleProjectId
    THEN [i \in 1..Len(queryParameters) |->
            IF queryParameters[i][1] = "project"
              THEN <<"project", thisProjectId>>
              ELSE queryParameters[i]]
    ELSE queryParameters

\* #buildUrl lines 173-179: the query parameters after project substitution.
SubstituteProject(queryParameters, thisProjectId, moduleProjectId) ==
  IF HasKey(queryParameters, "project")
     /\ (GetKey(queryParameters, "project") # thisProjectId
         \/ GetKey(queryParameters, "project") # moduleProjectId)
    THEN [i \in 1..Len(queryParameters) |->
            IF queryParameters[i][1] = "project"
              THEN <<"project", thisProjectId>>
              ELSE queryParameters[i]]
    ELSE queryParameters

\* A concatenation that puts a "/" between a base and a path that lack one.
UrlStringWithSeparator(t, pathUri) ==
  IF IsValidUrl(pathUri) THEN pathUri
  ELSE IF t.baseUrl # <<>> /\ t.baseUrl[Len(t.baseUrl)] # "/"
          /\ pathUri # <<>> /\ pathUri[1] # "/"
    THEN t.baseUrl \o <<"/">> \o pathUri
    ELSE t.baseUrl \o pathUri

\* #buildUrl lines 180-189: the string handed to new URL.
UrlString(t, pathUri) == IF IsValidUrl(pathUri) THEN pathUri ELSE t.baseUrl \o pathUri

\* #buildUrl throws (new URL on line 185) iff base + path does not parse.
BuildUrlThrows(t, pathUri) == ~IsValidUrl(UrlString(t, pathUri))

\* A #buildUrl that adds the query parameters to the query the URL has.
BuildUrlKeepsQuery(t, pathUri, queryParameters, moduleProjectId) ==
  [NewURL(UrlString(t, pathUri)) EXCEPT
     !.search = @ \o BuildRequestQueryParams(
                  SubstituteProject(queryParameters, t.projectId, moduleProjectId))]

\* #buildUrl's result when it does not throw.
BuildUrl(t, pathUri, queryParameters, moduleProjectId) ==
  [NewURL(UrlString(t, pathUri)) EXCEPT
     !.search = BuildRequestQueryParams(
                  SubstituteProject(queryParameters, t.projectId, moduleProjectId))]

\* ---------------------------------------------------------- retry policy
\* Rationals are <<numerator, denominator>> with a positive denominator.
RatLeq(a, b) == a[1] * b[2] <= b[1] * a[2]
RatMin(a, b) == IF RatLeq(a, b) THEN a ELSE b
RatMul(a, b) == <<a[1] * b[1], a[2] * b[2]>>
RatPow(a, n) == <<a[1] ^ n, a[2] ^ n>>

MsPerSecond == 1000
\* The fixed unit of the backoff formula: one second.
BaseDelayUnit == <<1, 1>>

\* delay = min(maxRetryDelay, baseDelayUnit * multiplier^attemptNumber), in seconds.
Delay(retryConfig, attemptNumber) ==
  RatMin(<<retryConfig.maxRetryDelay, 1>>,
         RatMul(BaseDelayUnit, RatPow(retryConfig.retryDelayMultiplier, attemptNumber)))

\* A delay in whole milliseconds (a timer never fires early).
DelayMs(retryConfig, attemptNumber) ==
  LET d == Delay(retryConfig, attemptNumber)
  IN (d[1] * MsPerSecond + d[2] - 1) \div d[2]

\* The transient classes: no response (connection reset), 429, 5xx.
IsTransient(err) ==
  \/ err.response = NoResponse
  \/ err.response.status = 429
  \/ (err.response.status >= 500 /\ err.response.status <= 599)

\* retryableErrorFn applied to an error; the default checks the transient classes.
RetryableErrorFn(fn, err) == IsTransient(err)

PreconditionKeys == {"ifGenerationMatch", "ifMetagenerationMatch"}
\* The call carries a precondition that makes a replay safe.
HasPrecondition(config) ==
  \E i \in 1..Len(config.url.search) : config.url.search[i][1] \in PreconditionKeys

IdempotentMethods == {"GET", "DELETE"}
IsIdempotentCall(config) ==
  config.method \in IdempotentMethods \/ HasPrecondition(config)

\* decide(attemptNumber, elapsedMs, error, isIdempotentCall, perCallOverride).retry:
\* attemptNumber counts the attempts made so far, the failed one included.
ShouldRetry(config, attemptNumber, elapsedMs, err) ==
  /\ ~(attemptNumber > config.retryConfig.retry)
  /\ ~(elapsedMs >= config.retryConfig.totalTimeout * MsPerSecond)
  /\ (IsIdempotentCall(config) \/ config.retry = {TRUE})
  /\ RetryableErrorFn(config.retryConfig.shouldRetry, err)

\* ------------------------------------------------------------- dispatch
\* A retryConfig whose totalTimeout is the conformance runner's constant.
TransportRetryConfigFixedTimeout(t) ==
  [ retry |-> t.retryOptions.maxRetries,
    noResponseRetries |-> t.retryOptions.maxRetries,
    maxRetryDelay |-> t.retryOptions.maxRetryDelay,
    retryDelayMultiplier |-> t.retryOptions.retryDelayMultiplier,
    shouldRetry |-> t.retryOptions.retryableErrorFn,
    totalTimeout |-> TIMEOUT_FOR_INDIVIDUAL_TEST ]

\* The retryConfig makeRequest builds from the transport (lines 147-154).
TransportRetryConfig(t) ==
  [ retry |-> t.retryOptions.maxRetries,
    noResponseRetries |-> t.retryOptions.maxRetries,
    maxRetryDelay |-> t.retryOptions.maxRetryDelay,
    retryDelayMultiplier |-> t.retryOptions.retryDelayMultiplier,
    shouldRetry |-> t.retryOptions.retryableErrorFn,
    totalTimeout |-> t.retryOptions.totalTimeout ]

\* A dispatch that marks every call retryable.
DispatchConfigRetryable(t, reqOpts, headers, url) ==
  [ retryConfig |-> IF reqOpts.retryConfig = {}
                      THEN TransportRetryConfig(t)
                      ELSE CHOOSE rc \in reqOpts.retryConfig : TRUE,
    method |-> reqOpts.method, retry |-> {TRUE}, body |-> reqOpts.body,
    headers |-> headers, url |-> url, timeout |-> t.timeout ]

\* A dispatch that hands the collaborator no retry budget.
DispatchConfigNoRetry(t, reqOpts, headers, url) ==
  [ retryConfig |-> [TransportRetryConfig(t) EXCEPT !.retry = 0],
    method |-> reqOpts.method, retry |-> reqOpts.retry, body |-> reqOpts.body,
    headers |-> headers, url |-> url, timeout |-> t.timeout ]

\* A dispatch that confuses the per-attempt timeout with the total timeout.
DispatchConfigTimeoutMixup(t, reqOpts, headers, url) ==
  [ retryConfig |-> IF reqOpts.retryConfig = {}
                      THEN [TransportRetryConfig(t) EXCEPT !.totalTimeout = t.timeout]
                      ELSE CHOOSE rc \in reqOpts.retryConfig : TRUE,
    method |-> reqOpts.method, retry |-> reqOpts.retry, body |-> reqOpts.body,
    headers |-> headers, url |-> url, timeout |-> t.timeout ]

\* The object literal handed to authClient.request (lines 146-159): retryConfig
\* first, then the spread of reqOpts (which replaces retryConfig when reqOpts
\* carries one), then headers, url and timeout, which the spread cannot replace.
DispatchConfig(t, reqOpts, headers, url) ==
  [ retryConfig |-> IF reqOpts.retryConfig = {}
                      THEN TransportRetryConfig(t)
                      ELSE CHOOSE rc \in reqOpts.retryConfig : TRUE,
    method |-> reqOpts.method,
    retry |-> reqOpts.retry,
    body |-> reqOpts.body,
    headers |-> headers,
    url |-> url,
    timeout |-> t.timeout ]

\* ----------------------------------------------------------------- state
Calls == 1..MaxCalls
\* The StorageTransport instances of the process.
Transports == {"t1", "t2"}

VARIABLES
  projectId,     \* the module-level `let projectId`
  transports,    \* the StorageTransport instances
  interceptors,  \* gaxiosInstance.interceptors.request of each transport
  calls,         \* the makeRequest invocations
  net,           \* the collaborator's attempt loop of each call
  nextUuid,      \* the next value randomUUID() returns
  scenario       \* the conformance scenario (one describe block) being run

vars == <<projectId, transports, interceptors, calls, net, nextUuid, scenario>>

Pending == [state |-> "pending", value |-> Undefined, err |-> NullError]
Resolved(v) == [state |-> "resolved", value |-> v, err |-> NullError]
Rejected(e) == [state |-> "rejected", value |-> Undefined, err |-> e]

\* A StorageRequestOptions with every optional field absent.
EmptyDescriptor ==
  [ method |-> "GET", url |-> <<>>, body |-> Undefined, headers |-> <<>>,
    queryParameters |-> <<>>, projectId |-> Undefined, interceptors |-> {},
    retry |-> {}, retryConfig |-> {}, cmdKey |-> Undefined ]

IdleCall ==
  [ pc |-> "idle", t |-> "t1", reqOpts |-> EmptyDescriptor, callback |-> "none",
    headers |-> {}, pid |-> Undefined, config |-> {}, response |-> NoResponse,
    err |-> NullError, promise |-> Pending, cbLog |-> <<>>, failure |-> {},
    lookups |-> 0, requests |-> 0, engine |-> <<>>, stamp |-> 0,
    cached |-> Undefined, given |-> <<>>, moduleSeen |-> Undefined ]

IdleNet ==
  [ phase |-> "none", script |-> <<>>, attempts |-> 0, elapsedMs |-> 0,
    delays |-> <<>>, retryAt |-> <<>>, lastErr |-> NullError, outOfTime |-> FALSE,
    sentIds |-> <<>> ]

\* Before executeScenario has registered anything.
NoScenario ==
  [ pc |-> "unregistered", expectSuccess |-> FALSE, preconditionProvided |-> FALSE,
    storageMethodString |-> "none", id |-> Undefined, setup |-> 0, wire |-> <<>>,
    preconditionRequired |-> FALSE, method |-> "none", value |-> Undefined,
    fetched |-> "none", verdict |-> "none",
    storageInterceptors |-> <<>>, api |-> <<>>,
    map |-> <<>>, methods |-> {}, described |-> {}, jsonMethod |-> "none" ]

\* ------------------------------------------------- outcome normalisation
\* The caller's callback: how it behaves when invoked with args.
CallbackKinds == {"returns", "throws", "throwsOnSuccess", "throwsOnError"}
CallbackThrows(callback, args) ==
  \/ callback = "throws"
  \/ callback = "throwsOnSuccess" /\ args.err = NullError
  \/ callback = "throwsOnError" /\ args.err # NullError

\* The promise an async continuation that ends in `return callback(...)` settles:
\* resolved with the callback's (void) result, or rejected with what it threw.
AfterCallback(call, args) ==
  [call EXCEPT !.cbLog = Append(@, args),
               !.pc = "done",
               !.promise = IF CallbackThrows(call.callback, args)
                             THEN Rejected(CallbackError)
                             ELSE Resolved(Undefined)]

\* A catch block that drops the error of a call made without a callback.
CatchBlockSwallows(call, e) ==
  IF call.callback # "none"
    THEN AfterCallback(call, [err |-> e, data |-> Undefined, resp |-> NoResponse])
    ELSE [call EXCEPT !.pc = "done", !.promise = Resolved(Undefined)]

\* The catch block (lines 166-169).
CatchBlock(call, e) ==
  IF call.callback # "none"
    THEN AfterCallback(call, [err |-> e, data |-> Undefined, resp |-> NoResponse])
    ELSE [call EXCEPT !.pc = "done", !.promise = Rejected(e)]

\* A fulfilment reaction that hands over the whole response as the data.
OnFulfilledNoData(call, resp) ==
  IF call.callback # "none"
    THEN AfterCallback(call, [err |-> NullError, data |-> Null, resp |-> resp])
    ELSE [call EXCEPT !.pc = "done", !.promise = Resolved(Null)]

\* The fulfilment reaction of requestPromise (line 163, or line 165 without a
\* callback). A callback that throws rejects the promise .then returned, which
\* the .catch of line 164 is chained on.
OnFulfilled(call, resp) ==
  IF call.callback # "none"
    THEN LET args == [err |-> NullError, data |-> resp.data, resp |-> resp]
         IN IF CallbackThrows(call.callback, args)
              THEN [call EXCEPT !.cbLog = Append(@, args),
                                !.pc = "rejected", !.err = CallbackError]
              ELSE AfterCallback(call, args)
    ELSE [call EXCEPT !.pc = "done", !.promise = Resolved(resp.data)]

\* A rejection reaction that calls back and then rethrows the error.
OnRejectedRethrows(call, err) ==
  IF call.callback # "none"
    THEN [AfterCallback(call, [err |-> err, data |-> Null, resp |-> err.response])
            EXCEPT !.promise = Rejected(err)]
    ELSE [call EXCEPT !.pc = "done", !.promise = Rejected(err)]

\* The rejection reaction (line 164; without a callback the rejection passes
\* through the .then of line 165).
OnRejected(call, err) ==
  IF call.callback # "none"
    THEN AfterCallback(call, [err |-> err, data |-> Null, resp |-> err.response])
    ELSE [call EXCEPT !.pc = "done", !.promise = Rejected(err)]

\* ---------------------------------------------------------- interceptors
\* gaxiosInstance.interceptors.request is a Set: add() of a member it already
\* holds changes nothing, and iteration follows insertion order.
SetAdd(engine, inter) ==
  IF \E i \in 1..Len(engine) : engine[i] = inter THEN engine ELSE Append(engine, inter)

\* An engine that keeps the interceptors as the array it was given.
InstallInterceptorsAsArray(list) == list

\* Lines 128-131: clear(), then add() of each interceptor in the given order.
RECURSIVE InstallInterceptors(_)
InstallInterceptors(list) ==
  IF list = <<>> THEN <<>>
  ELSE SetAdd(InstallInterceptors(SubSeq(list, 1, Len(list) - 1)), list[Len(list)])

\* --------------------------------------------------------------- actions
\* The transports in Active are constructed with any of Params, the others as
\* the conformance runner constructs them.
InitWith(Params, Active) ==
  /\ projectId = Undefined
  /\ transports \in [Transports -> {StorageTransport(o) :
                                      o \in Params \cup {ConformanceTransportParameters}}]
  /\ \A t \in Active : \E o \in Params : transports[t] = StorageTransport(o)
  /\ \A t \in Transports \ Active :
       transports[t] = StorageTransport(ConformanceTransportParameters)
  /\ interceptors = [t \in Transports |-> <<>>]
  /\ calls = [c \in Calls |-> IdleCall]
  /\ net = [c \in Calls |-> IdleNet]
  /\ nextUuid = 1
  /\ scenario = NoScenario

\* An invocation that adds its interceptors without clearing the engine first.
CallAddsInterceptors(c, Active, Descriptors, Callbacks, Scripts) ==
  /\ calls[c].pc = "idle"
  /\ \E t \in Active, d \in Descriptors, cb \in Callbacks, s \in Scripts :
       /\ calls' = [calls EXCEPT ![c] =
            [@ EXCEPT !.t = t, !.reqOpts = d, !.callback = cb,
                      !.given = d.queryParameters,
                      !.headers = RequestHeaders(transports[t], d, nextUuid),
                      !.pid = IF Truthy(d.projectId) THEN d.projectId ELSE Undefined,
                      !.lookups = IF Truthy(d.projectId) THEN 0 ELSE 1,
                      !.pc = IF Truthy(d.projectId) THEN "awaitProject" ELSE "awaitLookup"]]
       /\ interceptors' = IF d.interceptors = {} THEN interceptors
                          ELSE [interceptors EXCEPT ![t] =
                                  InstallInterceptors(@ \o CHOOSE i \in d.interceptors : TRUE)]
       /\ net' = [net EXCEPT ![c].script = s]
  /\ nextUuid' = nextUuid + 1
  /\ UNCHANGED <<scenario, projectId, transports>>

\* makeRequest up to its first suspension (lines 118-140): headers, interceptor
\* installation, and the start of getProjectId.
Call(c, Active, Descriptors, Callbacks, Scripts) ==
  /\ calls[c].pc = "idle"
  /\ \E t \in Active, d \in Descriptors, cb \in Callbacks, s \in Scripts :
       /\ calls' = [calls EXCEPT ![c] =
            [@ EXCEPT !.t = t, !.reqOpts = d, !.callback = cb,
                      !.given = d.queryParameters,
                      !.headers = RequestHeaders(transports[t], d, nextUuid),
                      !.pid = IF Truthy(d.projectId) THEN d.projectId ELSE Undefined,
                      !.lookups = IF Truthy(d.projectId) THEN 0 ELSE 1,
                      !.pc = IF Truthy(d.projectId) THEN "awaitProject" ELSE "awaitLookup"]]
       /\ interceptors' = IF d.interceptors = {} THEN interceptors
                          ELSE [interceptors EXCEPT ![t] =
                                  InstallInterceptors(CHOOSE i \in d.interceptors : TRUE)]
       /\ net' = [net EXCEPT ![c].script = s]
  /\ nextUuid' = nextUuid + 1
  /\ UNCHANGED <<scenario, projectId, transports>>

\* authClient.getProjectId() resolves: line 137 stores it in the module variable.
LookupResolves(c, Results) ==
  /\ calls[c].pc = "awaitLookup"
  /\ \E p \in Results :
       /\ projectId' = p
       /\ calls' = [calls EXCEPT ![c].pid = p, ![c].pc = "awaitProject"]
  /\ UNCHANGED <<scenario, transports, interceptors, net, nextUuid>>

\* A lookup that is invoked a second time after it rejected.
LookupRejectsRetried(c) ==
  /\ calls[c].pc = "awaitLookup"
  /\ \E e \in LookupErrors :
       calls' = [calls EXCEPT ![c] =
         IF @.lookups < 2 THEN [@ EXCEPT !.lookups = @ + 1]
         ELSE CatchBlock([@ EXCEPT !.failure = {e}], e)]
  /\ UNCHANGED <<scenario, projectId, transports, interceptors, net, nextUuid>>

\* A failed lookup that takes the call's interceptors off the engine again.
LookupRejectsClearsInterceptors(c) ==
  /\ calls[c].pc = "awaitLookup"
  /\ \E e \in LookupErrors :
       calls' = [calls EXCEPT ![c] = CatchBlock([@ EXCEPT !.failure = {e}], e)]
  /\ interceptors' = IF calls[c].reqOpts.interceptors = {} THEN interceptors
                     ELSE [interceptors EXCEPT ![calls[c].t] = <<>>]
  /\ UNCHANGED <<scenario, projectId, transports, net, nextUuid>>

\* authClient.getProjectId() rejects: the await throws into the catch block.
LookupRejects(c) ==
  /\ calls[c].pc = "awaitLookup"
  /\ \E e \in LookupErrors :
       calls' = [calls EXCEPT ![c] = CatchBlock([@ EXCEPT !.failure = {e}], e)]
  /\ UNCHANGED <<scenario, projectId, transports, interceptors, net, nextUuid>>

\* A makeRequest that hands its request to authClient.request twice.
ResumeDispatchesTwice(c) ==
  LET call == calls[c]
      t == call.t
      cached == Truthy(call.pid)
      mod == IF cached THEN call.pid ELSE projectId
      tr == IF cached THEN [transports[t] EXCEPT !.projectId = call.pid]
            ELSE transports[t]
      qp == SubstituteProject(call.reqOpts.queryParameters, tr.projectId, mod)
  IN /\ call.pc = "awaitProject"
     /\ projectId' = mod
     /\ transports' = [transports EXCEPT ![t] = tr]
     /\ IF BuildUrlThrows(tr, call.reqOpts.url)
          THEN /\ calls' = [calls EXCEPT ![c] =
                    CatchBlock([@ EXCEPT !.failure = {InvalidUrlError},
                                         !.reqOpts.queryParameters = qp],
                               InvalidUrlError)]
               /\ net' = net
          ELSE /\ calls' = [calls EXCEPT ![c] =
                    [@ EXCEPT !.reqOpts.queryParameters = qp,
                              !.config = {DispatchConfig(tr, call.reqOpts, call.headers,
                                            BuildUrl(tr, call.reqOpts.url,
                                                     call.reqOpts.queryParameters, mod))},
                              !.requests = @ + 2,
                              !.engine = interceptors[t],
                              !.stamp = nextUuid,
                              !.cached = transports[t].projectId,
                              !.moduleSeen = mod,
                              !.pc = "awaitRequest"]]
               /\ net' = [net EXCEPT ![c].phase = "inflight"]
     /\ UNCHANGED <<scenario, interceptors, nextUuid>>

\* makeRequest resumes after `await getProjectId()` (lines 141-165): caches a
\* truthy project id, builds the URL (which may throw into the catch block) and
\* calls authClient.request once. The call records the interceptors the engine
\* holds as the request is handed over, how many invocations had begun, and
\* the project id the transport held as the call resumed.
Resume(c) ==
  LET call == calls[c]
      t == call.t
      cached == Truthy(call.pid)
      mod == IF cached THEN call.pid ELSE projectId
      tr == IF cached THEN [transports[t] EXCEPT !.projectId = call.pid]
            ELSE transports[t]
      qp == SubstituteProject(call.reqOpts.queryParameters, tr.projectId, mod)
  IN /\ call.pc = "awaitProject"
     /\ projectId' = mod
     /\ transports' = [transports EXCEPT ![t] = tr]
     /\ IF BuildUrlThrows(tr, call.reqOpts.url)
          THEN /\ calls' = [calls EXCEPT ![c] =
                    CatchBlock([@ EXCEPT !.failure = {InvalidUrlError},
                                         !.reqOpts.queryParameters = qp],
                               InvalidUrlError)]
               /\ net' = net
          ELSE /\ calls' = [calls EXCEPT ![c] =
                    [@ EXCEPT !.reqOpts.queryParameters = qp,
                              !.config = {DispatchConfig(tr, call.reqOpts, call.headers,
                                            BuildUrl(tr, call.reqOpts.url,
                                                     call.reqOpts.queryParameters, mod))},
                              !.requests = @ + 1,
                              !.engine = interceptors[t],
                              !.stamp = nextUuid,
                              !.cached = transports[t].projectId,
                              !.moduleSeen = mod,
                              !.pc = "awaitRequest"]]
               /\ net' = [net EXCEPT ![c].phase = "inflight"]
     /\ UNCHANGED <<scenario, interceptors, nextUuid>>

\* The errors authClient.request can reject with.
DispatchErrors == {HttpError(503), ConnectionReset}

\* authClient.request resolves (the whole logical call, as one step).
RequestResolves(c) ==
  /\ calls[c].pc = "awaitRequest"
  /\ \E resp \in Responses :
       calls' = [calls EXCEPT ![c].response = resp, ![c].pc = "fulfilled"]
  /\ net' = [net EXCEPT ![c].phase = "finished"]
  /\ UNCHANGED <<scenario, projectId, transports, interceptors, nextUuid>>

\* authClient.request rejects (the whole logical call, as one step).
RequestRejects(c) ==
  /\ calls[c].pc = "awaitRequest"
  /\ \E e \in DispatchErrors :
       calls' = [calls EXCEPT ![c].err = e, ![c].failure = {e}, ![c].pc = "rejected"]
  /\ net' = [net EXCEPT ![c].phase = "finished"]
  /\ UNCHANGED <<scenario, projectId, transports, interceptors, nextUuid>>

\* The reaction registered by .then runs.
ThenHandler(c) ==
  /\ calls[c].pc = "fulfilled"
  /\ calls' = [calls EXCEPT ![c] = OnFulfilled(@, @.response)]
  /\ UNCHANGED <<scenario, projectId, transports, interceptors, net, nextUuid>>

\* The reaction registered by .catch runs (or the rejection passes through).
CatchHandler(c) ==
  /\ calls[c].pc = "rejected"
  /\ calls' = [calls EXCEPT ![c] = OnRejected(@, @.err)]
  /\ UNCHANGED <<scenario, projectId, transports, interceptors, net, nextUuid>>

\* ------------------------------------------- the collaborator's attempts
\* The faults a test-bench run injects, one per attempt, in order; once the
\* instructions are used up the attempts succeed.
Faults == {"return-503", "return-429", "return-reset-connection", "return-404"}
FaultError(f) ==
  CASE f = "return-503" -> HttpError(503)
    [] f = "return-429" -> HttpError(429)
    [] f = "return-404" -> HttpError(404)
    [] OTHER -> ConnectionReset

\* The data the n-th attempt returns when it succeeds.
AttemptData(n) == <<"data-1", "data-2", "data-3", "data-4", "data-5", "data-6">>[n]
AttemptResponse(n) == [status |-> 200, data |-> AttemptData(n)]

\* One network attempt of authClient.request completes after dur seconds; it
\* was sent with the headers of the request configuration. A failed attempt is
\* put to the retry policy: retry after the backoff delay, or
\* reject the logical call with this attempt's error.
AttemptCompletes(c) ==
  /\ calls[c].pc = "awaitRequest"
  /\ net[c].phase = "inflight"
  /\ \E dur \in 1..MaxAttemptDur :
       LET config == CHOOSE cfg \in calls[c].config : TRUE
           n == net[c].attempts + 1
           now == net[c].elapsedMs + dur * MsPerSecond
           after == [net[c] EXCEPT !.attempts = n, !.elapsedMs = now,
                       !.sentIds = Append(@,
                          HeadersGet(config.headers, "x-goog-api-client").invocationId)]
       IN IF n > Len(net[c].script)
            THEN /\ net' = [net EXCEPT ![c] = [after EXCEPT !.phase = "finished"]]
                 /\ calls' = [calls EXCEPT ![c].response = AttemptResponse(n),
                                           ![c].pc = "fulfilled"]
            ELSE LET e == FaultError(net[c].script[n])
                 IN IF ShouldRetry(config, n, now, e)
                      THEN /\ net' = [net EXCEPT ![c] =
                                [after EXCEPT !.phase = "backoff", !.lastErr = e,
                                   !.delays = Append(@, Delay(config.retryConfig, n)),
                                   !.retryAt = Append(@, now)]]
                           /\ calls' = calls
                      ELSE /\ net' = [net EXCEPT ![c] =
                                [after EXCEPT !.phase = "finished", !.lastErr = e,
                                   !.outOfTime =
                                     (now >= config.retryConfig.totalTimeout * MsPerSecond)]]
                           /\ calls' = [calls EXCEPT ![c].err = e, ![c].failure = {e},
                                                     ![c].pc = "rejected"]
  /\ UNCHANGED <<scenario, projectId, transports, interceptors, nextUuid>>

\* The backoff delay elapses and the next attempt starts.
BackoffElapses(c) ==
  /\ calls[c].pc = "awaitRequest"
  /\ net[c].phase = "backoff"
  /\ LET config == CHOOSE cfg \in calls[c].config : TRUE
     IN net' = [net EXCEPT ![c].phase = "inflight",
                           ![c].elapsedMs = @ + DelayMs(config.retryConfig, net[c].attempts)]
  /\ UNCHANGED <<scenario, projectId, calls, transports, interceptors, nextUuid>>

\* ------------------------------------------------ conformance scenarios
Frame == <<projectId, transports, interceptors, calls, net, nextUuid>>

\* methodMap as line 61 builds it: the entries of an empty object.
methodMap == [key \in {} |-> <<>>]

\* The mapping of retryInvocationMap.json that line 62 is to load: the library
\* functions that exercise each API method.
RetryInvocationMap ==
  [key \in {"storage.objects.get", "storage.buckets.patch"} |->
     IF key = "storage.objects.get"
       THEN <<"getFile">>
       ELSE <<"bucketSetMetadata", "bucketSetMetadataInstancePrecondition">>]

\* The library functions the mapping names.
LibraryFunctions == {"getFile", "bucketSetMetadata", "bucketSetMetadataInstancePrecondition"}

\* Map.prototype.get: undefined (here the empty list) for a key not mapped.
MethodMapGet(map, key) == IF key \in DOMAIN map THEN map[key] ELSE <<>>

\* The methods of a test case: a name and an optional group.
Methods ==
  { [name |-> "storage.objects.get", group |-> Undefined],
    [name |-> "storage.buckets.update", group |-> "storage.buckets.patch"],
    [name |-> "storage.unmapped", group |-> Undefined] }

\* testCase.methods of the test cases: any of the methods, at least one.
TestCaseMethods == SUBSET Methods \ {{}}

\* A lookup by the method's name alone.
FunctionListByName(map, jsonMethod) == MethodMapGet(map, jsonMethod.name)

\* Lines 81-84: the functions methodMap holds for a method, looked up by its
\* group when it has one and by its name otherwise.
FunctionList(map, jsonMethod) ==
  IF jsonMethod.group # Undefined
    THEN MethodMapGet(map, jsonMethod.group)
    ELSE MethodMapGet(map, jsonMethod.name)

\* Lines 80-96: the describe blocks the two forEach loops register, one for
\* each function of each method; `functionList?.forEach` skips a method that
\* has no list.
Describes(map, methods) ==
  UNION { { <<jsonMethod.name, FunctionList(map, jsonMethod)[i]>> :
              i \in 1..Len(FunctionList(map, jsonMethod)) } :
          jsonMethod \in methods }

\* executeScenario(testCase) (lines 73-209) with map as methodMap: it returns
\* with the describe blocks registered and nothing run.
ExecuteScenario(MethodMaps) ==
  /\ scenario.pc = "unregistered"
  /\ \E map \in MethodMaps, methods \in TestCaseMethods, es \in BOOLEAN, pp \in BOOLEAN :
       scenario' = [NoScenario EXCEPT !.pc = "executing",
                                      !.map = map,
                                      !.methods = methods,
                                      !.expectSuccess = es,
                                      !.preconditionProvided = pp,
                                      !.described = Describes(map, methods)]
  /\ UNCHANGED Frame

\* The test runner enters one of the registered describe blocks (line 96).
Register ==
  /\ scenario.pc = "executing"
  /\ \E d \in scenario.described :
       scenario' = [scenario EXCEPT !.pc = "registered",
                                    !.jsonMethod = d[1],
                                    !.storageMethodString = d[2]]
  /\ UNCHANGED Frame

\* beforeEach up to its first await (lines 98-130): the transport and the
\* storage client are constructed and POST retry_test is issued.
BeforeEach ==
  /\ scenario.pc = "registered"
  /\ scenario' = [scenario EXCEPT !.pc = "awaitCreate",
                                  !.wire = Append(@, <<"POST", "retry_test">>)]
  /\ UNCHANGED Frame

\* The awaits of lines 131-159: bucket, file, notification, HMAC key.
SetupSteps == <<"bucket", "file", "notification", "hmacKey">>

\* The x-retry-test-id a request of the storage client carries: what the
\* interceptors registered on the client at that moment put there, the last
\* one winning; none when no interceptor is registered.
StorageCallTestId(sc) ==
  IF sc.storageInterceptors = <<>> THEN Undefined
  ELSE sc.storageInterceptors[Len(sc.storageInterceptors)]

\* A storage-API call the scenario issues through the storage client.
StorageCall(sc, name) == [call |-> name, testId |-> StorageCallTestId(sc)]

\* A beforeEach that registers the interceptor before the setup calls.
CreateSettlesPushesInterceptor ==
  /\ scenario.pc = "awaitCreate"
  /\ \/ \E id \in {"run-1", "run-2"} :
          LET sc == [scenario EXCEPT !.pc = "awaitSetup", !.id = id,
                                     !.storageInterceptors = Append(@, id)]
          IN scenario' = [sc EXCEPT !.api = Append(@, StorageCall(sc, SetupSteps[1]))]
     \/ scenario' = [scenario EXCEPT !.pc = "finished", !.verdict = "failed"]
  /\ UNCHANGED Frame

\* createTestBenchRetryTest settles: its result is creationResult and the
\* first setup call is issued (line 132 or 143); its rejection fails the hook
\* and with it the test.
CreateSettles ==
  /\ scenario.pc = "awaitCreate"
  /\ \/ \E id \in {"run-1", "run-2"} :
          scenario' = [scenario EXCEPT
             !.pc = "awaitSetup", !.id = id,
             !.api = Append(@, StorageCall(scenario, SetupSteps[1]))]
     \/ scenario' = [scenario EXCEPT !.pc = "finished", !.verdict = "failed"]
  /\ UNCHANGED Frame

\* One of the setup calls settles and the next is issued; after the last the
\* interceptor that stamps creationResult.id is pushed (lines 161-175).
SetupSettles ==
  /\ scenario.pc = "awaitSetup"
  /\ \/ IF scenario.setup + 1 = Len(SetupSteps)
          THEN scenario' = [scenario EXCEPT
                 !.setup = @ + 1, !.pc = "ready",
                 !.storageInterceptors = Append(@, scenario.id)]
          ELSE scenario' = [scenario EXCEPT
                 !.setup = @ + 1,
                 !.api = Append(@, StorageCall(scenario, SetupSteps[scenario.setup + 2]))]
     \/ scenario' = [scenario EXCEPT !.pc = "finished", !.verdict = "failed"]
  /\ UNCHANGED Frame

\* it() up to its first await (lines 179-195): the library function is invoked.
It ==
  /\ scenario.pc = "ready"
  /\ scenario' = [scenario EXCEPT
        !.pc = "awaitMethod",
        !.preconditionRequired = scenario.preconditionProvided,
        !.wire = Append(@, <<"method", scenario.storageMethodString>>),
        !.api = Append(@, StorageCall(scenario, "method"))]
  /\ UNCHANGED Frame

\* getTestBenchRetryTest(testId) (lines 272-285): GET retry_test/{testId} with
\* the header x-retry-test-id: testId.
GetTestBenchRetryTest(sc, testId) ==
  [sc EXCEPT !.pc = "awaitFetch",
             !.wire = Append(@, <<"GET", "retry_test/", testId>>),
             !.api = Append(@, [call |-> "GET", testId |-> testId])]

\* How the library function settles: resolved with undefined, resolved with a
\* value, or rejected.
MethodOutcomes ==
  { [method |-> "resolved", value |-> Undefined],
    [method |-> "resolved", value |-> "metadata"],
    [method |-> "rejected", value |-> Undefined] }

\* assert.ifError(await f()) passes for a resolution with null or undefined;
\* assert.rejects(f) passes for a rejection.
AssertionPasses(expectSuccess, outcome) ==
  IF expectSuccess
    THEN outcome.method = "resolved" /\ outcome.value = Undefined
    ELSE outcome.method = "rejected"

\* An it() that takes the expected rejection as the whole verdict.
MethodSettlesWithoutFetch ==
  /\ scenario.pc = "awaitMethod"
  /\ \E outcome \in MethodOutcomes :
       LET sc == [scenario EXCEPT !.method = outcome.method, !.value = outcome.value]
       IN scenario' =
            IF ~AssertionPasses(scenario.expectSuccess, outcome)
              THEN [sc EXCEPT !.pc = "finished", !.verdict = "failed"]
            ELSE IF ~scenario.expectSuccess
              THEN [sc EXCEPT !.pc = "finished", !.verdict = "passed"]
            ELSE GetTestBenchRetryTest(sc, scenario.id)
  /\ UNCHANGED Frame

\* The library function settles (lines 191-202): the assertion on its outcome
\* throws, or GET retry_test/{id} is issued.
MethodSettles ==
  /\ scenario.pc = "awaitMethod"
  /\ \E outcome \in MethodOutcomes :
       LET sc == [scenario EXCEPT !.method = outcome.method, !.value = outcome.value]
       IN scenario' =
            IF AssertionPasses(scenario.expectSuccess, outcome)
              THEN GetTestBenchRetryTest(sc, scenario.id)
              ELSE [sc EXCEPT !.pc = "finished", !.verdict = "failed"]
  /\ UNCHANGED Frame

\* getTestBenchRetryTest settles and completed is asserted (lines 199-203).
FetchSettles ==
  /\ scenario.pc = "awaitFetch"
  /\ \E fetched \in {"completed", "incomplete", "rejected"} :
       scenario' = [scenario EXCEPT
         !.pc = "finished", !.fetched = fetched,
         !.verdict = IF fetched = "completed" THEN "passed" ELSE "failed"]
  /\ UNCHANGED Frame

\* The test runner's timeout (line 204) ends the test while it awaits.
TimesOut ==
  /\ scenario.pc \in {"awaitCreate", "awaitSetup", "awaitMethod", "awaitFetch"}
  /\ scenario' = [scenario EXCEPT !.pc = "finished", !.verdict = "failed"]
  /\ UNCHANGED Frame

\* -------------------------------------------------------- specifications
\* What authClient.getProjectId can resolve with (undefined: no project found).
LookupResults == {"auth-project", Undefined}

InvalidBaseUrl == <<"//localhost:9000", "/">>

CoreParams ==
  { [ConformanceTransportParameters EXCEPT !.baseUrl = b, !.projectId = p,
                                           !.userAgent = ua] :
      b \in {TESTBENCH_HOST, InvalidBaseUrl}, p \in {Undefined, CONF_TEST_PROJECT_ID},
      ua \in {Undefined, "retry-test"} }

\* The headers objects a caller passes: none; a content type next to values
\* for the two names the transport computes; one name in two spellings.
CallerHeaders ==
  { <<>>,
    << <<"Content-Type", HeaderValue(<<"application/json">>)>>,
       <<"User-Agent", HeaderValue(<<"caller-agent">>)>>,
       <<"X-Goog-Api-Client", HeaderValue(<<"caller-tracking">>)>> >>,
    << <<"x-retry-test-id", HeaderValue(<<"id-1">>)>>,
       <<"X-Retry-Test-Id", HeaderValue(<<"id-2">>)>> >> }

CoreDescriptors ==
  { [EmptyDescriptor EXCEPT !.url = <<"retry_test">>, !.projectId = p,
                            !.queryParameters = q, !.headers = h, !.cmdKey = k] :
      p \in {Undefined, "explicit-project"},
      q \in {<<>>, << <<"project", "wrong-id">> >>},
      h \in CallerHeaders,
      k \in {Undefined, "storage.get"} }

CoreTransports == {"t1"}
\* One makeRequest invocation, followed through every outcome.
CoreCalls == {1}

Next ==
  \E c \in CoreCalls :
    \/ Call(c, CoreTransports, CoreDescriptors, {"none"} \cup CallbackKinds, {<<>>})
    \/ LookupResolves(c, LookupResults)
    \/ LookupRejects(c)
    \/ Resume(c)
    \/ RequestResolves(c)
    \/ RequestRejects(c)
    \/ ThenHandler(c)
    \/ CatchHandler(c)

Spec == InitWith(CoreParams, CoreTransports) /\ [][Next]_vars

\* Calls that share one transport, interleaved in every way and followed up to
\* the moment each hands its request to authClient.request.
SharedParams ==
  { [ConformanceTransportParameters EXCEPT !.projectId = p] :
      p \in {Undefined, CONF_TEST_PROJECT_ID} }

\* The interceptors call c passes when it passes any; the first caller lists
\* one of them twice. The second caller may also pass an empty list.
InterceptorsOf(c) ==
  IF c = 1 THEN << <<"inter", 1, "a">>, <<"inter", 1, "b">>, <<"inter", 1, "a">> >>
  ELSE << <<"inter", c, "a">> >>

SharedDescriptors(c) ==
  { [EmptyDescriptor EXCEPT !.url = <<"b">>, !.projectId = p,
                            !.queryParameters = << <<"project", "wrong-id">> >>,
                            !.interceptors = i] :
      p \in {Undefined, "explicit-project"},
      i \in {{}, {InterceptorsOf(c)}} \cup (IF c = 2 THEN {{<<>>}} ELSE {}) }

NextShared ==
  \E c \in Calls :
    \/ Call(c, CoreTransports, SharedDescriptors(c), {"none"}, {<<>>})
    \/ LookupResolves(c, LookupResults)
    \/ LookupRejects(c)
    \/ Resume(c)

SpecShared == InitWith(SharedParams, CoreTransports) /\ [][NextShared]_vars

\* One call over the shapes of base URL, descriptor URL and query parameters.
BaseUrls ==
  { TESTBENCH_HOST, <<"https:", "//storage.example">>, <<"http:", "//localhost:9000">>,
    InvalidBaseUrl }

UrlParams == { [ConformanceTransportParameters EXCEPT !.baseUrl = b] : b \in BaseUrls }

\* descriptor.url: absent, relative (with and without a leading "/", with a
\* query), absolute (with and without a query).
DescriptorUrls ==
  { <<>>, <<"b">>, <<"/", "b">>, <<"b", "?x=1">>,
    <<"https:", "//storage.example", "/", "o">>,
    <<"https:", "//storage.example", "/", "o", "?x=1">> }

DescriptorQueries ==
  { <<>>,
    << <<"prefix", "a&b">>, <<"alt", "json">> >>,
    << <<"alt", "json">>, <<"project", "wrong id">> >> }

UrlDescriptors ==
  { [EmptyDescriptor EXCEPT !.url = u, !.queryParameters = q, !.projectId = p] :
      u \in DescriptorUrls, q \in DescriptorQueries,
      p \in {Undefined, "explicit-project"} }

NextUrl ==
  \E c \in CoreCalls :
    \/ Call(c, CoreTransports, UrlDescriptors, {"none"}, {<<>>})
    \/ LookupResolves(c, LookupResults)
    \/ LookupRejects(c)
    \/ Resume(c)
    \/ RequestResolves(c)
    \/ RequestRejects(c)
    \/ ThenHandler(c)
    \/ CatchHandler(c)

SpecUrl == InitWith(UrlParams, CoreTransports) /\ [][NextUrl]_vars

\* Two transport instances of one process, a call on either, interleaved in
\* every way and followed up to the dispatch.
InstanceCalls == {1, 2}

InstanceParams ==
  { [ConformanceTransportParameters EXCEPT !.projectId = p] :
      p \in {Undefined, CONF_TEST_PROJECT_ID} }

InstanceDescriptors ==
  { [EmptyDescriptor EXCEPT !.url = <<"b">>, !.projectId = p, !.queryParameters = q] :
      p \in {Undefined, "explicit-project"},
      q \in { << <<"project", "explicit-project">> >>, << <<"project", "auth-project">> >>,
              << <<"alt", "json">>, <<"project", "wrong id">> >> } }

NextInstances ==
  \E c \in InstanceCalls :
    \/ Call(c, Transports, InstanceDescriptors, {"none"}, {<<>>})
    \/ LookupResolves(c, LookupResults)
    \/ LookupRejects(c)
    \/ Resume(c)

SpecInstances == InitWith(InstanceParams, Transports) /\ [][NextInstances]_vars

\* The scenarios executeScenario runs once the mapping is loaded, next to the
\* map the source builds today.
NextScenario ==
  \/ ExecuteScenario({methodMap, RetryInvocationMap})
  \/ Register
  \/ BeforeEach
  \/ CreateSettles
  \/ SetupSettles
  \/ It
  \/ MethodSettles
  \/ FetchSettles
  \/ TimesOut

SpecScenario == InitWith({ConformanceTransportParameters}, CoreTransports)
                  /\ [][NextScenario]_vars

\* The retry loop of one logical call.
MaxRetriesBound == 2
RetryCalls == {1}

RetryParams ==
  { ConformanceTransportParameters,
    [ConformanceTransportParameters EXCEPT !.baseUrl = InvalidBaseUrl] } \cup
  { [ConformanceTransportParameters EXCEPT !.retryOptions =
       [ retryDelayMultiplier |-> <<2, 1>>, maxRetries |-> m, maxRetryDelay |-> 2,
         totalTimeout |-> tt, retryableErrorFn |-> Undefined ]] :
      m \in 0..MaxRetriesBound, tt \in {3} }

\* A retryConfig a descriptor carries of its own.
DescriptorRetryConfig ==
  [ retry |-> 1, noResponseRetries |-> 1, maxRetryDelay |-> 1,
    retryDelayMultiplier |-> <<1, 1>>, shouldRetry |-> Undefined, totalTimeout |-> 30 ]

RetryDescriptors ==
  { [EmptyDescriptor EXCEPT !.url = <<"b">>, !.method = m, !.retry = r,
                            !.queryParameters = q, !.retryConfig = rc] :
      m \in {"GET", "POST", "DELETE"}, r \in {{}, {TRUE}},
      q \in {<<>>, << <<"ifGenerationMatch", "1">> >>},
      rc \in {{}, {DescriptorRetryConfig}} }

RECURSIVE SeqsUpTo(_, _)
SeqsUpTo(S, n) ==
  IF n = 0 THEN {<<>>}
  ELSE LET shorter == SeqsUpTo(S, n - 1)
       IN shorter \cup {Append(s, x) : s \in shorter, x \in S}

Scripts == SeqsUpTo(Faults, MaxScriptLen)

NextRetry ==
  \E c \in RetryCalls :
    \/ Call(c, CoreTransports, RetryDescriptors, {"none"}, Scripts)
    \/ LookupResolves(c, {"auth-project"})
    \/ LookupRejects(c)
    \/ Resume(c)
    \/ AttemptCompletes(c)
    \/ BackoffElapses(c)
    \/ ThenHandler(c)
    \/ CatchHandler(c)

SpecRetry == InitWith(RetryParams, CoreTransports) /\ [][NextRetry]_vars

\* Two logical calls on one transport, each with its own retry loop.
IdCalls == {1, 2}

IdParams ==
  { [ConformanceTransportParameters EXCEPT !.retryOptions =
       [ retryDelayMultiplier |-> <<2, 1>>, maxRetries |-> 1, maxRetryDelay |-> 2,
         totalTimeout |-> 30, retryableErrorFn |-> Undefined ]] }

IdDescriptors ==
  { [EmptyDescriptor EXCEPT !.url = <<"b">>, !.projectId = "explicit-project",
                            !.cmdKey = k] : k \in {Undefined, "storage.get"} }

NextIds ==
  \E c \in IdCalls :
    \/ Call(c, CoreTransports, IdDescriptors, {"none"}, SeqsUpTo({"return-503"}, MaxScriptLen))
    \/ Resume(c)
    \/ AttemptCompletes(c)
    \/ BackoffElapses(c)
    \/ ThenHandler(c)
    \/ CatchHandler(c)

SpecIds == InitWith(IdParams, CoreTransports) /\ [][NextIds]_vars

\* ------------------------------------------------ calling conventions
Last(seq) == seq[Len(seq)]
WithCallback(c) == calls[c].pc # "idle" /\ calls[c].callback # "none"
WithoutCallback(c) == calls[c].pc # "idle" /\ calls[c].callback = "none"

\* C1: a call given a callback invokes it exactly once over its whole life:
\* never twice, and once by the time the call is done.
C1_CallbackExactlyOnce ==
  \A c \in Calls :
    WithCallback(c) =>
      /\ Len(calls[c].cbLog) <= 1
      /\ calls[c].pc = "done" => Len(calls[c].cbLog) = 1

\* C2: a call made without a callback never drops a failure: once a lookup,
\* URL or dispatch failure has occurred the promise never resolves, and it
\* rejects with that very error.
C2_FailureRejectsWithSameError ==
  \A c \in Calls :
    (WithoutCallback(c) /\ calls[c].failure # {}) =>
      /\ calls[c].promise.state # "resolved"
      /\ calls[c].cbLog = <<>>
      /\ calls[c].pc = "done" =>
           /\ calls[c].promise.state = "rejected"
           /\ calls[c].promise.err \in calls[c].failure

\* C2's case: a call made without a callback met a rejected dispatch and its
\* promise has rejected with that error.
C2_Witness ==
  \E c \in Calls :
    /\ WithoutCallback(c) /\ calls[c].pc = "done"
    /\ calls[c].failure = {HttpError(503)}
    /\ calls[c].promise = Rejected(HttpError(503))

C4_SuccessDelivery ==
  \A c \in Calls :
    (calls[c].response # NoResponse /\ calls[c].pc \in {"done", "rejected"}) =>
      IF calls[c].callback # "none"
        THEN /\ calls[c].cbLog # <<>>
             /\ calls[c].cbLog[1] = [err |-> NullError, data |-> calls[c].response.data,
                                     resp |-> calls[c].response]
        ELSE calls[c].promise = Resolved(calls[c].response.data)

\* C4's case: a call with a callback has succeeded and the callback has been
\* handed the data and the response.
C4_Witness ==
  \E c \in Calls :
    /\ calls[c].callback = "returns" /\ calls[c].pc = "done"
    /\ calls[c].response = [status |-> 200, data |-> "d1"]
    /\ Len(calls[c].cbLog) = 1

\* C5: on every failure of a call given a callback, the callback receives
\* (error, null, error.response).
C5_FailureTriple ==
  \A c \in Calls :
    WithCallback(c) =>
      \A i \in 1..Len(calls[c].cbLog) :
        calls[c].cbLog[i].err \in calls[c].failure =>
          calls[c].cbLog[i] = [err |-> calls[c].cbLog[i].err, data |-> Null,
                               resp |-> calls[c].cbLog[i].err.response]

\* ------------------------------------------------------------ retrying
\* The retry policy the transport and the descriptor prescribe for a call.
PrescribedRetryConfig(c) ==
  IF calls[c].reqOpts.retryConfig = {}
    THEN TransportRetryConfig(transports[calls[c].t])
    ELSE CHOOSE rc \in calls[c].reqOpts.retryConfig : TRUE

Started(c) == calls[c].pc # "idle"
CarriesPrecondition(c) ==
  \E k \in PreconditionKeys : HasKey(calls[c].reqOpts.queryParameters, k)

\* A POST without a precondition and without a per-call retryable override.
UnguardedPost(c) ==
  /\ Started(c)
  /\ calls[c].reqOpts.method = "POST"
  /\ ~CarriesPrecondition(c)
  /\ calls[c].reqOpts.retry # {TRUE}

\* C6: an unguarded POST is never retried: no backoff is ever scheduled for it
\* and exactly one attempt has been made when the logical call finishes.
C6_PostNeverRetried ==
  \A c \in Calls :
    UnguardedPost(c) =>
      /\ net[c].attempts <= 1
      /\ net[c].delays = <<>>
      /\ net[c].phase # "backoff"
      /\ net[c].phase = "finished" => net[c].attempts = 1

\* C6's case: an unguarded POST on a transport with maxRetries > 0 met a 503
\* and was rejected with it after one attempt.
C6_Witness ==
  \E c \in Calls :
    /\ UnguardedPost(c)
    /\ transports[calls[c].t].retryOptions.maxRetries > 0
    /\ calls[c].reqOpts.retryConfig = {}
    /\ Len(net[c].script) >= 2
    /\ net[c].script[1] = "return-503"
    /\ calls[c].pc = "done"
    /\ net[c].attempts = 1
    /\ calls[c].promise = Rejected(HttpError(503))

AllTransient(script) ==
  \A i \in 1..Len(script) : IsTransient(FaultError(script[i]))

\* A GET or DELETE that has been dispatched against a run of transient faults.
IdempotentAgainstTransients(c) ==
  /\ calls[c].config # {}
  /\ calls[c].reqOpts.method \in {"GET", "DELETE"}
  /\ AllTransient(net[c].script)

ResolvedWithFinalAttempt(c) ==
  calls[c].promise = Resolved(AttemptData(Len(net[c].script) + 1))

\* C7 as stated: a GET or DELETE facing at most maxRetries transient errors
\* followed by a success eventually resolves with that attempt's data. (Stated
\* for descriptors that carry no retryConfig of their own, the case in which
\* maxRetries is the budget the collaborator is handed.)
C7_EventuallyResolves ==
  \A c \in RetryCalls :
    (IdempotentAgainstTransients(c)
     /\ calls[c].reqOpts.retryConfig = {}
     /\ Len(net[c].script) <= transports[calls[c].t].retryOptions.maxRetries)
      ~> ResolvedWithFinalAttempt(c)

\* C7 amended: with at most as many transient errors as the retry budget
\* prescribed for the call, the call eventually resolves with the successful
\* attempt's data unless a retry was refused because totalTimeout had elapsed.
C7_EventuallyResolvesUnlessOutOfTime ==
  \A c \in RetryCalls :
    (IdempotentAgainstTransients(c)
     /\ Len(net[c].script) <= PrescribedRetryConfig(c).retry)
      ~> (ResolvedWithFinalAttempt(c) \/ net[c].outOfTime)

\* C7's case: a GET resolved with the third attempt's data after two transient
\* errors were retried.
C7_Witness ==
  \E c \in RetryCalls :
    /\ calls[c].reqOpts.method = "GET"
    /\ calls[c].reqOpts.retryConfig = {}
    /\ net[c].script = <<"return-503", "return-reset-connection">>
    /\ net[c].attempts = 3
    /\ calls[c].pc = "done"
    /\ calls[c].promise = Resolved("data-3")

\* C8: a logical call makes at most maxRetries + 1 attempts, exactly one when
\* maxRetries = 0, and a call rejected after its last permitted attempt is
\* rejected with that attempt's error.
C8_AttemptBound ==
  \A c \in Calls :
    Started(c) =>
      LET maxRetries == transports[calls[c].t].retryOptions.maxRetries
      IN /\ net[c].attempts <= maxRetries + 1
         /\ (maxRetries = 0 /\ net[c].phase = "finished") => net[c].attempts = 1
         /\ (calls[c].pc = "done" /\ calls[c].failure # {}
             /\ net[c].attempts = maxRetries + 1) =>
              calls[c].promise = Rejected(FaultError(net[c].script[net[c].attempts]))

\* C9 as stated: the elapsed time of a logical call, from its first attempt to
\* its final resolution or rejection, never exceeds totalTimeout.
C9_ElapsedWithinTotalTimeout ==
  \A c \in Calls :
    (Started(c) /\ net[c].phase = "finished") =>
      net[c].elapsedMs <= transports[calls[c].t].retryOptions.totalTimeout * MsPerSecond

\* C9 amended: every retry is scheduled while the elapsed time is below the
\* prescribed totalTimeout, so a retry attempt starts less than one backoff
\* delay (at most maxRetryDelay) after totalTimeout; the attempt in flight may
\* still run past it.
C9_NoRetryScheduledAfterTotalTimeout ==
  \A c \in Calls :
    Started(c) =>
      LET rc == PrescribedRetryConfig(c)
      IN /\ \A i \in 1..Len(net[c].retryAt) :
              net[c].retryAt[i] < rc.totalTimeout * MsPerSecond
         /\ (net[c].phase = "inflight" /\ net[c].attempts >= 1) =>
              net[c].elapsedMs < (rc.totalTimeout + rc.maxRetryDelay) * MsPerSecond

\* C9's case: a call retried once, ran past totalTimeout, and was then refused
\* a further retry because the budget was spent.
C9_Witness ==
  \E c \in Calls :
    /\ calls[c].reqOpts.retryConfig = {}
    /\ Len(net[c].retryAt) >= 1
    /\ net[c].phase = "finished"
    /\ net[c].outOfTime
    /\ net[c].attempts <= transports[calls[c].t].retryOptions.maxRetries
    /\ net[c].elapsedMs > transports[calls[c].t].retryOptions.totalTimeout * MsPerSecond

\* The totalTimeout, in milliseconds, of the policy prescribed for a call.
TotalTimeoutMs(c) ==
  MsPerSecond *
    (IF calls[c].reqOpts.retryConfig = {}
       THEN transports[calls[c].t].retryOptions.totalTimeout
       ELSE (CHOOSE rc \in calls[c].reqOpts.retryConfig : TRUE).totalTimeout)

\* An attempt of call c completes in this step.
AttemptEnds(c) == net[c].phase = "inflight" /\ net'[c].attempts = net[c].attempts + 1

\* C15: an attempt that completes when the elapsed time has reached
\* totalTimeout is the last one: no retry is scheduled, however many retries
\* remain and whatever the error, and the outcome of that attempt (which was
\* allowed to complete) is the outcome of the logical call. A retry is only
\* ever scheduled while the elapsed time is below totalTimeout.
C15_TimeoutTakesPrecedence ==
  [][\A c \in Calls :
       AttemptEnds(c) =>
         LET n == net'[c].attempts
         IN /\ net'[c].phase = "backoff" => net'[c].elapsedMs < TotalTimeoutMs(c)
            /\ net'[c].elapsedMs >= TotalTimeoutMs(c) =>
                 /\ net'[c].phase = "finished"
                 /\ IF n <= Len(net[c].script)
                      THEN /\ calls'[c].pc = "rejected"
                           /\ calls'[c].err = FaultError(net[c].script[n])
                      ELSE /\ calls'[c].pc = "fulfilled"
                           /\ calls'[c].response = AttemptResponse(n)]_vars

\* C15's case: a GET with a retry budget of two met a second transient error
\* when totalTimeout had elapsed; it was not retried again and the call was
\* rejected with that attempt's error.
C15_Witness ==
  \E c \in Calls :
    /\ calls[c].reqOpts.method = "GET"
    /\ calls[c].reqOpts.retryConfig = {}
    /\ transports[calls[c].t].retryOptions.maxRetries = 2
    /\ net[c].script = <<"return-503", "return-429">>
    /\ net[c].attempts = 2
    /\ net[c].elapsedMs >= TotalTimeoutMs(c)
    /\ net[c].outOfTime
    /\ calls[c].pc = "done"
    /\ calls[c].promise = Rejected(HttpError(429))

\* A call under the conformance configuration (multiplier 0.01, cap 32).
ConformanceCall(c) ==
  /\ Started(c)
  /\ transports[calls[c].t].retryOptions = ConformanceRetryOptions
  /\ calls[c].reqOpts.retryConfig = {}

DelaysWithinCap(c) ==
  \A i \in 1..Len(net[c].delays) :
    RatLeq(net[c].delays[i], <<ConformanceMaxRetryDelay, 1>>)

\* C10 as stated: under the conformance configuration the delay never exceeds
\* 32 and is non-decreasing in the attempt number.
C10_DelayBoundedNonDecreasing ==
  \A c \in Calls :
    ConformanceCall(c) =>
      /\ DelaysWithinCap(c)
      /\ \A i, j \in 1..Len(net[c].delays) :
           i < j => RatLeq(net[c].delays[i], net[c].delays[j])

\* C10 amended: under the conformance configuration the delay never exceeds 32
\* and, the multiplier being below 1, is non-increasing in the attempt number.
C10_DelayBoundedNonIncreasing ==
  \A c \in Calls :
    ConformanceCall(c) =>
      /\ DelaysWithinCap(c)
      /\ \A i, j \in 1..Len(net[c].delays) :
           i < j => RatLeq(net[c].delays[j], net[c].delays[i])

\* C10's case: successive delays were computed under the conformance
\* configuration.
C10_Witness ==
  \E c \in Calls :
    /\ ConformanceCall(c)
    /\ net[c].delays = << <<1, 100>>, <<1, 10000>> >>

\* ------------------------------------------------------ resolution errors
LookupFailed(c) == calls[c].failure \cap LookupErrors # {}

\* C11: when the project-id lookup of a call fails, the call ends there: the
\* lookup was invoked exactly once, authClient.request was never called and no
\* network attempt was made, and the caller has the lookup's error (as the
\* rejection without a callback, as the callback's first argument with one).
C11_LookupFailureSurfacedBeforeDispatch ==
  \A c \in Calls :
    LookupFailed(c) =>
      /\ calls[c].lookups = 1
      /\ calls[c].requests = 0
      /\ calls[c].config = {}
      /\ net[c].attempts = 0 /\ net[c].phase = "none"
      /\ calls[c].pc = "done"
      /\ IF calls[c].callback = "none"
           THEN calls[c].promise.state = "rejected"
                /\ calls[c].promise.err \in calls[c].failure
           ELSE Len(calls[c].cbLog) = 1 /\ calls[c].cbLog[1].err \in calls[c].failure

\* C11's case: a lookup rejected with the metadata server's error and the
\* callback was handed that error without a request having been made.
C11_Witness ==
  \E c \in Calls :
    /\ calls[c].failure = {[name |-> "MetadataError",
                            response |-> [status |-> 500, data |-> "meta"]]}
    /\ calls[c].callback = "returns"
    /\ calls[c].pc = "done"
    /\ calls[c].requests = 0

\* ---------------------------------------------------- header composition
ReservedHeaders == {"user-agent", "x-goog-api-client"}
Dispatched(c) == calls[c].config # {}
DispatchedConfig(c) == CHOOSE cfg \in calls[c].config : TRUE

\* The tracking header the transport computes for a call.
ComputedTracking(c) ==
  [ text |-> RuntimeTracking,
    invocationId |-> HeadersGet(calls[c].headers, "x-goog-api-client").invocationId,
    cmd |-> calls[c].reqOpts.cmdKey ]

\* Every dispatched request carries the two computed headers, non-empty,
\* whatever the caller supplied under those names.
ComputedHeadersPresent(c) ==
  LET h == DispatchedConfig(c).headers
  IN /\ HeadersHas(h, "User-Agent") /\ HeadersHas(h, "x-goog-api-client")
     /\ HeadersGet(h, "User-Agent").text # <<>>
     /\ HeadersGet(h, "x-goog-api-client").text # <<>>
     /\ HeadersGet(h, "User-Agent") =
          HeaderValue(GetUserAgentString(transports[calls[c].t]))
     /\ HeadersGet(h, "x-goog-api-client") = ComputedTracking(c)
     /\ HeadersGet(h, "x-goog-api-client").invocationId > 0
     /\ Cardinality({e \in h : e[1] \in ReservedHeaders}) = 2

\* The values the caller gave for a (lower-case) name, joined with ", " in the
\* order given.
RECURSIVE JoinedValue(_, _)
JoinedValue(requestHeaders, name) ==
  IF requestHeaders = <<>> THEN <<>>
  ELSE LET n == Len(requestHeaders)
           before == JoinedValue(SubSeq(requestHeaders, 1, n - 1), name)
           this == requestHeaders[n][2].text
       IN IF LowerCase(requestHeaders[n][1]) # name THEN before
          ELSE IF before = <<>> THEN this
          ELSE before \o <<", ">> \o this

\* C13 as stated: the two computed headers are always there, and every other
\* header the caller supplied is dispatched with its value unchanged.
C13_CallerHeadersUnchanged ==
  \A c \in Calls :
    Dispatched(c) =>
      /\ ComputedHeadersPresent(c)
      /\ \A i \in 1..Len(calls[c].reqOpts.headers) :
           LET e == calls[c].reqOpts.headers[i]
           IN LowerCase(e[1]) \notin ReservedHeaders =>
                /\ HeadersHas(DispatchedConfig(c).headers, e[1])
                /\ HeadersGet(DispatchedConfig(c).headers, e[1]) = e[2]

\* C13 amended: the two computed headers are always there; every other name
\* the caller supplied is dispatched once, in lower case, its value being the
\* caller's values for that name (in any spelling) joined with ", "; nothing
\* else is dispatched.
C13_CallerHeadersMerged ==
  \A c \in Calls :
    Dispatched(c) =>
      /\ ComputedHeadersPresent(c)
      /\ \A i \in 1..Len(calls[c].reqOpts.headers) :
           LET name == LowerCase(calls[c].reqOpts.headers[i][1])
           IN name \notin ReservedHeaders =>
                <<name, HeaderValue(JoinedValue(calls[c].reqOpts.headers, name))>>
                  \in DispatchedConfig(c).headers
      /\ \A e \in DispatchedConfig(c).headers :
           \/ e[1] \in ReservedHeaders
           \/ \E i \in 1..Len(calls[c].reqOpts.headers) :
                LowerCase(calls[c].reqOpts.headers[i][1]) = e[1]

\* C13's case: a caller supplied a content type and values for both computed
\* names together with a command tag; the dispatched request keeps the content
\* type and carries the computed User-Agent and tracking header.
C13_Witness ==
  \E c \in Calls :
    /\ Dispatched(c)
    /\ calls[c].reqOpts.cmdKey = "storage.get"
    /\ Len(calls[c].reqOpts.headers) = 3
    /\ <<"content-type", HeaderValue(<<"application/json">>)>>
         \in DispatchedConfig(c).headers
    /\ HeadersGet(DispatchedConfig(c).headers, "User-Agent").text =
         <<"retry-test", DefaultUserAgent>>
    /\ HeadersGet(DispatchedConfig(c).headers, "x-goog-api-client").cmd = "storage.get"

\* ---------------------------------------------------- project identity
\* The order of invocations: randomUUID() is drawn once in each, in turn.
InvocationId(c) == HeadersGet(calls[c].headers, "x-goog-api-client").invocationId

\* Call d had been invoked when call c handed over its request.
InvokedBeforeDispatchOf(d, c) == Started(d) /\ InvocationId(d) < calls[c].stamp

\* Call c was invoked after call d had handed over its request.
InvokedAfterDispatchOf(c, d) ==
  Started(c) /\ Dispatched(d) /\ InvocationId(c) >= calls[d].stamp

DispatchedProject(c) == GetKey(DispatchedConfig(c).url.search, "project")
AsksForProject(c) ==
  Dispatched(c) /\ HasKey(DispatchedConfig(c).url.search, "project")

\* C12 as stated: the project parameter of the dispatched URL is the project id
\* resolved for that same call: the explicit id, otherwise the lookup's result.
C12_ProjectIsResolvedId ==
  \A c \in Calls : AsksForProject(c) => DispatchedProject(c) = calls[c].pid

\* C12 amended: the project parameter is the id resolved for the call when
\* that is non-empty, whatever the caller wrote and whatever other calls do in
\* between; when the lookup yields no id it is the id the transport held as
\* the call resumed.
C12_ProjectIsResolvedOrCachedId ==
  \A c \in Calls :
    AsksForProject(c) =>
      /\ DispatchedProject(c) # "wrong-id"
      /\ DispatchedProject(c) =
           IF Truthy(calls[c].pid) THEN calls[c].pid ELSE calls[c].cached

\* C12's case: two calls on one transport were in flight together, one with an
\* explicit id and one resolved by lookup, and each was dispatched with its own.
C12_Witness ==
  \E c, d \in Calls :
    /\ AsksForProject(c) /\ AsksForProject(d)
    /\ calls[c].t = calls[d].t
    /\ InvocationId(c) < InvocationId(d) /\ InvocationId(d) < calls[c].stamp
    /\ calls[d].stamp <= calls[c].stamp
    /\ calls[c].reqOpts.projectId = Undefined
    /\ DispatchedProject(c) = "auth-project"
    /\ DispatchedProject(d) = "explicit-project"

ExplicitId(c) == Truthy(calls[c].reqOpts.projectId)

\* C18: the project dispatched by a call that supplies no explicit project id
\* is never the explicit id another call on the same transport supplied.
C18_ExplicitIdNeverLeaks ==
  \A c, d \in Calls :
    ( /\ c # d /\ Started(d) /\ calls[c].t = calls[d].t
      /\ AsksForProject(c) /\ ~ExplicitId(c)
      /\ ExplicitId(d) ) =>
      DispatchedProject(c) # calls[d].reqOpts.projectId

\* C19: once a call on a transport has been dispatched with a project identity
\* resolved by lookup, a call invoked on that transport later without an
\* explicit id does not invoke authClient.getProjectId.
C19_NoLookupOnceResolved ==
  \A c, d \in Calls :
    ( /\ c # d /\ calls[c].t = calls[d].t
      /\ Dispatched(d) /\ calls[d].lookups = 1 /\ Truthy(calls[d].pid)
      /\ InvokedAfterDispatchOf(c, d)
      /\ ~ExplicitId(c) ) =>
      calls[c].lookups = 0

\* ------------------------------------------------- interceptor sharing
CarriesInterceptors(c) == Started(c) /\ calls[c].reqOpts.interceptors # {}
OwnInterceptors(c) == CHOOSE i \in calls[c].reqOpts.interceptors : TRUE

\* A list without its repetitions: each member once, where it first occurs.
RECURSIVE FirstOccurrences(_)
FirstOccurrences(list) ==
  IF list = <<>> THEN <<>>
  ELSE LET IsOther(x) == x # Head(list)
       IN <<Head(list)>> \o SelectSeq(FirstOccurrences(Tail(list)), IsOther)

\* The calls on transport t that carried interceptors and were invoked before
\* the bound-th invocation.
Writers(t, bound) ==
  {d \in Calls : CarriesInterceptors(d) /\ calls[d].t = t /\ InvocationId(d) < bound}

\* What the last of those writers installed.
LastWritten(t, bound) ==
  IF Writers(t, bound) = {} THEN <<>>
  ELSE LET last == CHOOSE d \in Writers(t, bound) :
                     \A e \in Writers(t, bound) : InvocationId(e) <= InvocationId(d)
       IN FirstOccurrences(OwnInterceptors(last))

\* C16: a call installs its interceptors as it is invoked and is dispatched
\* later, so the only way it is dispatched with interceptors other than its own
\* is the race: another call carrying interceptors was invoked on the same
\* transport in between, and the engine then holds only that call's.
C16_DispatchedWithLaterCallsInterceptors ==
  \A c \in Calls :
    (Dispatched(c) /\ CarriesInterceptors(c)) =>
      /\ InvocationId(c) < calls[c].stamp
      /\ calls[c].engine # FirstOccurrences(OwnInterceptors(c)) =>
           \E d \in Calls \ {c} :
             /\ CarriesInterceptors(d) /\ calls[d].t = calls[c].t
             /\ InvocationId(c) < InvocationId(d)
             /\ InvokedBeforeDispatchOf(d, c)
             /\ calls[c].engine = FirstOccurrences(OwnInterceptors(d))

\* C16's case: two calls carrying interceptors are in flight on one transport;
\* the first has been dispatched while the engine held only the second's, and
\* the second has not been dispatched yet.
C16_Witness ==
  \E c, d \in Calls :
    /\ c # d /\ calls[c].t = calls[d].t
    /\ CarriesInterceptors(c) /\ CarriesInterceptors(d)
    /\ InvocationId(c) < InvocationId(d)
    /\ calls[c].pc = "awaitRequest" /\ ~Dispatched(d)
    /\ calls[c].engine = FirstOccurrences(OwnInterceptors(d))
    /\ \A i \in 1..Len(calls[c].engine) :
         \A j \in 1..Len(OwnInterceptors(c)) : calls[c].engine[i] # OwnInterceptors(c)[j]

\* C17 as stated: a call that carries interceptors is dispatched with the
\* engine's list being exactly its own interceptors in their given order (an
\* interceptor the descriptor repeats counting once).
C17_DispatchedWithOwnInterceptors ==
  \A c \in Calls :
    (Dispatched(c) /\ CarriesInterceptors(c)) =>
      calls[c].engine = FirstOccurrences(OwnInterceptors(c))

\* C17 amended (last writer wins): the engine's list is at every moment what
\* the most recently invoked call carrying interceptors on that transport
\* passed, each interceptor once in order of first occurrence, nothing of an
\* earlier call remaining; a call is therefore dispatched with the list of the
\* last such call invoked before its dispatch, which need not be its own.
C17_LastWriterWins ==
  /\ \A t \in Transports : interceptors[t] = LastWritten(t, nextUuid)
  /\ \A c \in Calls :
       Dispatched(c) => calls[c].engine = LastWritten(calls[c].t, calls[c].stamp)

\* C17's case: a call replaced the interceptors an earlier call had installed
\* and was dispatched with exactly its own.
C17_Witness ==
  \E c, e \in Calls :
    /\ c # e /\ calls[c].t = calls[e].t
    /\ CarriesInterceptors(c) /\ CarriesInterceptors(e)
    /\ InvocationId(e) < InvocationId(c)
    /\ Dispatched(c)
    /\ calls[c].engine = OwnInterceptors(c)
    /\ interceptors[calls[c].t] = OwnInterceptors(c)

\* ------------------------------------------------- invocation identifier
\* The tracking headers among a set of headers.
TrackingHeaders(headers) == {h \in headers : h[1] = "x-goog-api-client"}

\* C20: every invocation draws exactly one identifier and builds one tracking
\* header with it; no two invocations share an identifier; the invocation makes
\* at most one collaborator request, and every network attempt of it carries
\* the identifier of the invocation.
C20_OneInvocationIdPerCall ==
  /\ nextUuid - 1 = Cardinality({c \in Calls : Started(c)})
  /\ \A c \in Calls :
       Started(c) =>
         /\ Cardinality(TrackingHeaders(calls[c].headers)) = 1
         /\ InvocationId(c) \in 1..(nextUuid - 1)
         /\ \A d \in Calls \ {c} : Started(d) => InvocationId(d) # InvocationId(c)
         /\ calls[c].requests <= 1
         /\ Len(net[c].sentIds) = net[c].attempts
         /\ \A i \in 1..Len(net[c].sentIds) : net[c].sentIds[i] = InvocationId(c)

\* C20's case: two logical calls were each retried, and the attempts of each
\* carried that call's identifier, different from the other's.
C20_Witness ==
  \E c, d \in Calls :
    /\ net[c].attempts >= 2 /\ net[d].attempts >= 2
    /\ calls[c].pc = "done" /\ calls[d].pc = "done"
    /\ net[c].sentIds[1] = net[c].sentIds[2]
    /\ net[d].sentIds[1] = net[d].sentIds[2]
    /\ net[c].sentIds[1] # net[d].sentIds[1]

\* ------------------------------------------------- conformance scenario
\* The three exchanges of a scenario, in order.
ScenarioOrder ==
  << <<"POST", "retry_test">>,
     <<"method", scenario.storageMethodString>>,
     <<"GET", "retry_test/", scenario.id>> >>

OutcomeMatchesExpectation ==
  IF scenario.expectSuccess
    THEN scenario.method = "resolved"
    ELSE scenario.method = "rejected"

SetupCall(i) == scenario.api[i].call \in {"bucket", "file", "notification", "hmacKey"}

MappedFunctions(map, jsonMethod) ==
  LET key == IF jsonMethod.group # Undefined THEN jsonMethod.group ELSE jsonMethod.name
  IN IF key \in DOMAIN map THEN {map[key][i] : i \in 1..Len(map[key])} ELSE {}

\* C29: executeScenario registers a scenario exactly for the library functions
\* that methodMap maps from a method's group, when it has one, and otherwise
\* from its name; a method without a mapping gets none and nothing fails; and
\* with the methodMap of the source, which is empty, no scenario is registered
\* or run for any test case.
C29_RegistersMappedFunctionsOnly ==
  /\ scenario.pc # "unregistered" =>
       /\ \A jsonMethod \in scenario.methods, f \in LibraryFunctions :
            <<jsonMethod.name, f>> \in scenario.described
              <=> f \in MappedFunctions(scenario.map, jsonMethod)
       /\ \A d \in scenario.described : \E jsonMethod \in scenario.methods :
            d[1] = jsonMethod.name
       /\ scenario.pc = "executing" => scenario.verdict = "none"
  /\ scenario.pc \notin {"unregistered", "executing"} =>
       <<scenario.jsonMethod, scenario.storageMethodString>> \in scenario.described
  /\ (scenario.pc # "unregistered" /\ DOMAIN scenario.map = DOMAIN methodMap) =>
       /\ scenario.described = {}
       /\ scenario.pc = "executing"
       /\ scenario.wire = <<>> /\ scenario.api = <<>>
       /\ scenario.verdict = "none"

\* C29's case: executeScenario has returned for a test case with three methods
\* and the source's methodMap, and nothing is registered.
C29_Witness ==
  /\ scenario.pc = "executing"
  /\ scenario.methods = Methods
  /\ DOMAIN scenario.map = {}
  /\ scenario.described = {}

\* ------------------------------------------------------ URL construction
\* A URL string without its query.
WithoutQuery(url) == SelectSeq(url, IsPathToken)

\* Scheme, authority and path of a URL, written out again.
SchemeHostPath(u) == <<u.protocol>> \o u.host \o u.pathname

\* A URL string as its parser reads it: one with no path has the path "/".
WithRootPath(url) ==
  IF \E i \in 1..Len(url) : url[i] = "/" THEN url ELSE url \o <<"/">>

\* C21: an absolute descriptor.url is dispatched with its own scheme, host and
\* path, whatever the base URL; any other (an absent one being the empty
\* string) is dispatched as the base URL followed directly by descriptor.url,
\* nothing put between them and nothing taken away.
C21_UrlConstruction ==
  \A c \in Calls :
    Dispatched(c) =>
      LET d == calls[c].reqOpts.url
          base == transports[calls[c].t].baseUrl
          u == DispatchedConfig(c).url
      IN IF IsValidUrl(d)
           THEN SchemeHostPath(u) = WithRootPath(WithoutQuery(d))
           ELSE SchemeHostPath(u) = WithRootPath(WithoutQuery(base \o d))

\* C21's case: a base URL without a trailing "/" and a relative path without a
\* leading one were joined as they are, the path running into the host.
C21_Witness ==
  \E c \in Calls :
    /\ Dispatched(c)
    /\ transports[calls[c].t].baseUrl = <<"https:", "//storage.example">>
    /\ calls[c].reqOpts.url = <<"b">>
    /\ DispatchedConfig(c).url.host = <<"//storage.example", "b">>
    /\ DispatchedConfig(c).url.pathname = <<"/">>

\* The application/x-www-form-urlencoded form of a value.
FormEncoded(v) ==
  CASE v = "wrong id" -> "wrong+id"
    [] v = "a&b" -> "a%26b"
    [] v = "json" -> "json"
    [] v = "explicit-project" -> "explicit-project"
    [] v = "auth-project" -> "auth-project"
    [] v = CONF_TEST_PROJECT_ID -> CONF_TEST_PROJECT_ID
    [] v = Undefined -> "undefined"

\* C28: the query of the dispatched URL is the descriptor's queryParameters
\* after project substitution, pair by pair in insertion order with the values
\* URL-encoded; a query that descriptor.url carried is gone, and without
\* queryParameters the dispatched URL has no query.
C28_QueryIsSerializedParameters ==
  \A c \in Calls :
    Dispatched(c) =>
      LET qp == calls[c].reqOpts.queryParameters
          search == DispatchedConfig(c).url.search
      IN /\ Len(search) = Len(qp)
         /\ \A i \in 1..Len(qp) :
              /\ search[i][1] = qp[i][1]
              /\ search[i][2] = FormEncoded(qp[i][2])
              /\ qp[i][1] = "project" => qp[i][2] # "wrong id"
         /\ qp = <<>> => search = <<>>
         /\ \A i \in 1..Len(search) : search[i] # <<"x", "1">>

\* C28's case: an absolute descriptor.url with a query of its own was
\* dispatched with the encoded queryParameters as its only query.
C28_Witness ==
  \E c \in Calls :
    /\ Dispatched(c)
    /\ calls[c].reqOpts.url = <<"https:", "//storage.example", "/", "o", "?x=1">>
    /\ DispatchedConfig(c).url.search = << <<"prefix", "a%26b">>, <<"alt", "json">> >>

\* ------------------------------------------- interceptors left in place
\* Call c is invoked in this step.
Invoked(c) == calls[c].pc = "idle" /\ calls'[c].pc # "idle"

\* C26: the engine's interceptor list changes only in the step that invokes a
\* call whose descriptor carries an interceptors field, and then becomes that
\* call's list (the empty list clearing it); the invocation of a call without
\* the field, and every later step of any call, a failed project resolution
\* included, leaves the list as it is.
C26_InterceptorsStayUntilReplaced ==
  [][ /\ \A t \in Transports :
           interceptors'[t] # interceptors[t] =>
             \E c \in Calls :
               /\ Invoked(c) /\ calls'[c].t = t
               /\ calls'[c].reqOpts.interceptors # {}
      /\ \A c \in Calls :
           Invoked(c) =>
             IF calls'[c].reqOpts.interceptors = {}
               THEN interceptors' = interceptors
               ELSE interceptors'[calls'[c].t] =
                      FirstOccurrences(CHOOSE i \in calls'[c].reqOpts.interceptors : TRUE)
    ]_vars

\* C26's case: a call installed its interceptors and failed in project
\* resolution; a later call without an interceptors field was dispatched with
\* the failed call's interceptors on the engine.
C26_Witness ==
  \E c, e \in Calls :
    /\ c # e /\ calls[c].t = calls[e].t
    /\ CarriesInterceptors(e) /\ OwnInterceptors(e) # <<>>
    /\ LookupFailed(e)
    /\ Started(c) /\ calls[c].reqOpts.interceptors = {}
    /\ InvocationId(e) < InvocationId(c)
    /\ Dispatched(c)
    /\ calls[c].engine = FirstOccurrences(OwnInterceptors(e))
    /\ interceptors[calls[c].t] = calls[c].engine

\* ------------------------------------------------ cross-instance isolation
\* What the module-level project id can hold: nothing yet, a lookup's result,
\* or an explicit id of any call of the process.
ModuleValues == LookupResults \cup {"explicit-project"}

\* The instance a call was dispatched on, with the fields it had as it built
\* the URL: the id resolved for the call when there is one, otherwise the id
\* the instance held.
OwnInstance(c) ==
  [transports[calls[c].t] EXCEPT
     !.projectId = IF Truthy(calls[c].pid) THEN calls[c].pid ELSE calls[c].cached]

\* C27: the URL a call is dispatched with is the URL its own instance's fields
\* and its own inputs (descriptor, lookup result) give, whatever the
\* module-level project id holds: with any other value there, written by a
\* call on another instance or not, the dispatched URL would be the same.
C27_UrlIndependentOfModuleCache ==
  \A c \in Calls :
    Dispatched(c) =>
      \A m \in ModuleValues :
        DispatchedConfig(c).url =
          BuildUrl(OwnInstance(c), calls[c].reqOpts.url, calls[c].given, m)

\* C27's case: a call whose lookup found no id resumed while the module-level
\* id held what a call on the other instance had written, the very project
\* its descriptor names; it was dispatched with the id of its own instance.
C27_Witness ==
  \E c, d \in Calls :
    /\ Dispatched(c) /\ Started(d)
    /\ calls[c].t # calls[d].t
    /\ calls[c].reqOpts.projectId = Undefined /\ calls[c].pid = Undefined
    /\ calls[d].pid = "explicit-project"
    /\ calls[c].moduleSeen = "explicit-project"
    /\ calls[c].given = << <<"project", "explicit-project">> >>
    /\ calls[c].cached = CONF_TEST_PROJECT_ID
    /\ DispatchedProject(c) = CONF_TEST_PROJECT_ID

\* ---------------------------------------------------- invalid base URL
\* The base URL of the call's transport followed by its path does not parse.
UnparseableUrl(c) == BuildUrlThrows(transports[calls[c].t], calls[c].reqOpts.url)

\* C24: a call whose base URL + path is not a parseable URL fails with the URL
\* error before any asynchronous work: the project-id lookup is never invoked
\* for it and nothing is dispatched.
C24_InvalidBaseUrlFailsFast ==
  \A c \in Calls :
    (Started(c) /\ UnparseableUrl(c)) =>
      /\ calls[c].lookups = 0
      /\ calls[c].requests = 0
      /\ calls[c].pc = "done" => calls[c].failure = {InvalidUrlError}

\* ------------------------------------------------------- single dispatch
\* The call failed before its request could be handed over.
FailedBeforeDispatch(c) == calls[c].failure \cap (LookupErrors \cup {InvalidUrlError}) # {}

\* The call has passed the point where makeRequest hands its request over.
PastDispatch(c) ==
  /\ calls[c].pc \in {"awaitRequest", "fulfilled", "rejected", "done"}
  /\ ~FailedBeforeDispatch(c)

\* C25: a makeRequest invocation calls authClient.request at most once, exactly
\* once when project resolution and URL construction succeed and not at all
\* when either fails; every network attempt of the logical call, retries
\* included, belongs to that one request.
C25_SingleDispatch ==
  \A c \in Calls :
    /\ calls[c].requests <= 1
    /\ PastDispatch(c) => calls[c].requests = 1
    /\ ~PastDispatch(c) => calls[c].requests = 0 /\ net[c].attempts = 0
    /\ net[c].attempts >= 1 => calls[c].requests = 1

\* C25's case: a call that was retried twice and settled made its three
\* attempts within one request.
C25_Witness ==
  \E c \in Calls :
    /\ calls[c].pc = "done"
    /\ net[c].attempts = 3
    /\ calls[c].requests = 1

\* --------------------------------------------------- dispatch configuration
\* C22: every dispatched call hands the collaborator the retry policy and the
\* timeout of its transport (retry = noResponseRetries = maxRetries,
\* maxRetryDelay, retryDelayMultiplier, shouldRetry = retryableErrorFn,
\* totalTimeout, timeout), whatever the descriptor carries.
C22_DispatchConfigIsTransports ==
  \A c \in Calls :
    Dispatched(c) =>
      LET cfg == DispatchedConfig(c)
          o == transports[calls[c].t].retryOptions
      IN /\ cfg.retryConfig.retry = o.maxRetries
         /\ cfg.retryConfig.noResponseRetries = o.maxRetries
         /\ cfg.retryConfig.maxRetryDelay = o.maxRetryDelay
         /\ cfg.retryConfig.retryDelayMultiplier = o.retryDelayMultiplier
         /\ cfg.retryConfig.shouldRetry = o.retryableErrorFn
         /\ cfg.retryConfig.totalTimeout = o.totalTimeout
         /\ cfg.timeout = transports[calls[c].t].timeout

\* The event loop runs every ready continuation, every attempt completes (the
\* per-attempt timeout bounds it) and every backoff timer fires.
SpecRetryFair == SpecRetry /\ WF_vars(NextRetry)

====
